---------------------------- MODULE Spec2Model ----------------------------
(***************************************************************************)
(* The crawl-and-classify engine of DAIM: the credential pool, the rate    *)
(* limit guard, the search pagination driver, the candidate pipeline and   *)
(* the persistence functions.                                              *)
(*                                                                         *)
(* The repository holds two revisions of the pool-based crawler:           *)
(*   "fetcher"  data-fetcher.js with db-connector.js and constants.js      *)
(*   "utils"    the single-file crawler in utils.js (lines 100-447)        *)
(* They share the driver and differ in the persistence functions, the     *)
(* README heuristic and the way the store connection is opened.  The       *)
(* variable rev says which revision runs.                                  *)
(*                                                                         *)
(* One action is one external call together with the synchronous code     *)
(* that follows it up to the next await.                                   *)
(***************************************************************************)
EXTENDS Integers, Sequences, FiniteSets, TLC

(***************************************************************************)
(* Bounds of the model.                                                    *)
(***************************************************************************)
\* sizes of the credential pool explored by the crawl
MaxTokens == 2
\* the crawl covers the size domain [START_KB, START_KB + RangeSpan)
RangeSpan == 2
\* worlds with few result pages: 0..ShallowPages non-empty pages per pair
ShallowPages == 2
\* items of a result page that the model carries (per_page is 100)
MaxItems == 2
\* 403 answers the search provider gives in a row for one page
MaxRetries == 1
\* quota values fetched: THRESHOLD - QuotaSpread .. THRESHOLD + QuotaSpread
QuotaSpread == 1
\* records of one pair in the store of admitted repositories before the
\* pair's remaining candidates stop classifying
MaxAdmitted == 1
\* largest stargazers_count a repository summary reports
MaxStars == 1
\* pool sizes explored for the cyclic property of switchToken
MaxPoolSize == 5

(***************************************************************************)
(* Program constants.                                                      *)
(***************************************************************************)
THRESHOLD == 10
MAX_PAGES == 10
PER_PAGE == 100
START_KB == 800
step == 1
NUM_SERVICE == 3
MIN_FOLDERS == 2
META_PER_PAGE == 1

\* data-fetcher.js:208 sets maxSize to 5000; the model crawls the first
\* RangeSpan kilobytes of the domain
maxSize == START_KB + RangeSpan

Revisions == {"fetcher", "utils"}

(***************************************************************************)
(* Text.  A string is a sequence of characters.                            *)
(***************************************************************************)
UpperToLower ==
  [c \in {"A","B","C","D","E","F","G","H","I","J","K","L","M","N","O","P","Q","R","S","T","U","V","W","X","Y","Z"} |->
     CASE c = "A" -> "a"
       [] c = "B" -> "b"
       [] c = "C" -> "c"
       [] c = "D" -> "d"
       [] c = "E" -> "e"
       [] c = "F" -> "f"
       [] c = "G" -> "g"
       [] c = "H" -> "h"
       [] c = "I" -> "i"
       [] c = "J" -> "j"
       [] c = "K" -> "k"
       [] c = "L" -> "l"
       [] c = "M" -> "m"
       [] c = "N" -> "n"
       [] c = "O" -> "o"
       [] c = "P" -> "p"
       [] c = "Q" -> "q"
       [] c = "R" -> "r"
       [] c = "S" -> "s"
       [] c = "T" -> "t"
       [] c = "U" -> "u"
       [] c = "V" -> "v"
       [] c = "W" -> "w"
       [] c = "X" -> "x"
       [] c = "Y" -> "y"
       [] c = "Z" -> "z"]

ToLowerChar(c) == IF c \in DOMAIN UpperToLower THEN UpperToLower[c] ELSE c

toLowerCase(s) == [i \in 1..Len(s) |-> ToLowerChar(s[i])]

\* String.prototype.startsWith(sub, at) with at counted from 1
StartsAt(s, sub, at) ==
  /\ at + Len(sub) - 1 <= Len(s)
  /\ \A j \in 1..Len(sub) : s[at + j - 1] = sub[j]

\* String.prototype.includes
includes(s, sub) == \E at \in 1..(Len(s) + 1) : StartsAt(s, sub, at)

\* Array.prototype.some over a sequence of keywords
SomeKeywordIn(keywords, s) ==
  \E i \in 1..Len(keywords) : includes(s, keywords[i])

DATABASE_KEYWORDS ==
  << <<"p","o","s","t","g","r","e","s">>,
     <<"m","y","s","q","l">>,
     <<"m","a","r","i","a","d","b">>,
     <<"m","o","n","g","o","d","b">>,
     <<"r","e","d","i","s">>,
     <<"c","a","s","s","a","n","d","r","a">>,
     <<"c","o","c","k","r","o","a","c","h","d","b">>,
     <<"n","e","o","4","j">>,
     <<"d","y","n","a","m","o","d","b">>,
     <<"o","r","a","c","l","e">>,
     <<"m","s","s","q","l">>,
     <<"d","b","2">>,
     <<"s","q","l","i","t","e">>,
     <<"t","i","m","e","s","c","a","l","e","d","b">>,
     <<"i","n","f","l","u","x","d","b">>,
     <<"e","t","c","d">>,
     <<"t","a","r","a","n","t","o","o","l">>,
     <<"c","o","u","c","h","b","a","s","e">>,
     <<"c","o","u","c","h","d","b">>,
     <<"t","i","d","b">>,
     <<"c","l","i","c","k","h","o","u","s","e">>,
     <<"o","p","e","n","s","e","a","r","c","h">>,
     <<"e","l","a","s","t","i","c","s","e","a","r","c","h">>,
     <<"s","o","l","r">>,
     <<"h","b","a","s","e">>,
     <<"m","o","n","g","o">> >>

databaseKeywords ==
  << <<"p","o","s","t","g","r","e","s">>,
     <<"m","y","s","q","l">>,
     <<"m","a","r","i","a","d","b">>,
     <<"m","o","n","g","o","d","b">>,
     <<"r","e","d","i","s">>,
     <<"c","a","s","s","a","n","d","r","a">>,
     <<"c","o","c","k","r","o","a","c","h","d","b">>,
     <<"n","e","o","4","j">>,
     <<"d","y","n","a","m","o","d","b">>,
     <<"o","r","a","c","l","e">>,
     <<"m","s","s","q","l">>,
     <<"d","b","2">>,
     <<"s","q","l","i","t","e">>,
     <<"t","i","m","e","s","c","a","l","e","d","b">>,
     <<"i","n","f","l","u","x","d","b">>,
     <<"e","t","c","d">>,
     <<"t","a","r","a","n","t","o","o","l">>,
     <<"c","o","u","c","h","b","a","s","e">>,
     <<"c","o","u","c","h","d","b">>,
     <<"t","i","d","b">>,
     <<"c","l","i","c","k","h","o","u","s","e">>,
     <<"o","p","e","n","s","e","a","r","c","h">>,
     <<"e","l","a","s","t","i","c","s","e","a","r","c","h">>,
     <<"s","o","l","r">>,
     <<"h","b","a","s","e">> >>

StrMicroservices == <<"m","i","c","r","o","s","e","r","v","i","c","e","s">>
StrMicro == <<"m","i","c","r","o">>
StrService == <<"s","e","r","v","i","c","e">>

\* /micro[-]?service(s)?/i.test(s)
MicroservicePattern(s) ==
  LET l == toLowerCase(s) IN
  \E at \in 1..(Len(l) + 1) :
    /\ StartsAt(l, StrMicro, at)
    /\ \/ StartsAt(l, StrService, at + Len(StrMicro))
       \/ /\ at + Len(StrMicro) <= Len(l)
          /\ l[at + Len(StrMicro)] = "-"
          /\ StartsAt(l, StrService, at + Len(StrMicro) + 1)

(***************************************************************************)
(* Credential pool and rate limit guard.                                   *)
(***************************************************************************)
\* switchToken with the wrap taken one position late
switchTokenLateWrap(idx, n) == IF idx + 1 > n THEN 0 ELSE idx + 1

\* a rotation that does not wrap
switchTokenNoWrap(idx, n) == idx + 1

\* a rotation that advances by two positions
switchTokenTwice(idx, n) == (idx + 2) % n

\* currentTokenIndex after switchToken, for a pool of n credentials
switchToken(idx, n) == (idx + 1) % n

\* what octokit.rateLimit.get() may answer: a failure, or data.rate.remaining
Remainings == (THRESHOLD - QuotaSpread)..(THRESHOLD + QuotaSpread)

QuotaOutcomes ==
  {[ok |-> FALSE, remaining |-> 0]} \cup
  {[ok |-> TRUE, remaining |-> r] : r \in Remainings}

\* the single-credential revision that writes CSV files: its guard is the
\* only part of it modelled
CSV_REVISION == "csv"

\* checkRateLimit that rotates when the quota fetch fails
checkRateLimitOnError(r, idx, n, quota, threshold) ==
  IF r # CSV_REVISION /\ (~quota.ok \/ quota.remaining <= threshold)
    THEN switchToken(idx, n) ELSE idx

\* currentTokenIndex after checkRateLimit(threshold) fetched quota; the
\* single-credential revision has no index to move
checkRateLimit(r, idx, n, quota, threshold) ==
  IF r # CSV_REVISION /\ quota.ok /\ quota.remaining <= threshold
    THEN switchToken(idx, n) ELSE idx

\* whether checkRateLimit waits for the reset time before it returns: the
\* pool-based guard arms no timer on any path, the single-credential guard
\* awaits a timer of reset * 1000 - Date.now() at or below the threshold
checkRateLimitWaits(r, quota, threshold) ==
  r = CSV_REVISION /\ quota.ok /\ quota.remaining <= threshold

(***************************************************************************)
(* Size ranges and queries.                                                *)
(***************************************************************************)
\* a range whose upper bound is the next range's lower bound
RangeStringOverlapping(i, st) == [isArray |-> FALSE, lo |-> i, hi |-> i + st]

\* the template string `${i}..${i + step - 1}`: a string, not an array
RangeString(i, st) == [isArray |-> FALSE, lo |-> i, hi |-> i + st - 1]

\* the loop with the bound included: for (...; i <= maxSize; ...)
RECURSIVE RangesFromInclusive(_, _, _)
RangesFromInclusive(i, max, st) ==
  IF i <= max
    THEN <<RangeString(i, st)>> \o RangesFromInclusive(i + st, max, st)
    ELSE <<>>

\* for (let i = start; i < maxSize; i += step) ranges.push(...)
RECURSIVE RangesFrom(_, _, _)
RangesFrom(i, max, st) ==
  IF i < max THEN <<RangeString(i, st)>> \o RangesFrom(i + st, max, st) ELSE <<>>

generateSizeRanges(max, st) == RangesFrom(START_KB, max, st)

\* the exported generateSizeRanges at the head of utils.js starts at 50000
START_KB_EXPORT == 50000

generateSizeRangesExport(max, st) == RangesFrom(START_KB_EXPORT, max, st)

sizeRanges == generateSizeRanges(maxSize, step)

queries ==
  << [query |-> "filename:docker-compose.yml services", type |-> "YAML"],
     [query |-> "microservices OR microservice OR micro-services OR micro-service",
      type |-> "README"] >>

(***************************************************************************)
(* Files and the two heuristics.                                           *)
(***************************************************************************)
TextMicroMongo == <<"M","i","c","r","o","s","e","r","v","i","c","e","s"," ","w","i","t","h"," ","M","o","n","g","o","D","B">>
TextMicroOnly == <<"m","i","c","r","o","s","e","r","v","i","c","e","s">>
TextHyphenRedis == <<"m","i","c","r","o","-","s","e","r","v","i","c","e"," ","o","n"," ","R","e","d","i","s">>
TextMonolith == <<"m","o","n","o","l","i","t","h"," ","m","y","s","q","l">>
ImgPostgres == <<"p","o","s","t","g","r","e","s",":","1","4">>
ImgNginx == <<"n","g","i","n","x">>

\* what yaml.load yields for a file: kind is "error" (it throws), "null",
\* "scalar" or "map"; hasServices says whether a map has a truthy services
\* entry, whose values are the services
YamlError == [kind |-> "error", hasServices |-> FALSE, services |-> <<>>]
YamlScalar == [kind |-> "scalar", hasServices |-> FALSE, services |-> <<>>]
YamlMap(svcs) == [kind |-> "map", hasServices |-> TRUE, services |-> svcs]
\* a service entry: hasImage says whether its image is truthy, isString
\* whether that image is a string (YAML also yields numbers, lists, maps)
Service(img) == [hasImage |-> TRUE, isString |-> TRUE, image |-> img]
ServiceNoImage == [hasImage |-> FALSE, isString |-> TRUE, image |-> <<>>]
ServiceNumericImage == [hasImage |-> TRUE, isString |-> FALSE, image |-> <<>>]

ComposeThree ==
  YamlMap(<<ServiceNoImage, Service(ImgNginx), Service(ImgPostgres)>>)

\* the files the content provider serves during the crawl
CrawlFiles ==
  { [text |-> TextMicroMongo, yaml |-> YamlScalar],
    [text |-> TextMicroOnly, yaml |-> YamlScalar],
    [text |-> TextHyphenRedis, yaml |-> ComposeThree],
    [text |-> <<>>, yaml |-> YamlError] }

\* a verdict is a returned boolean or a thrown error
Returned(b) == [threw |-> FALSE, value |-> b]
Threw == [threw |-> TRUE, value |-> FALSE]

\* analyzeReadme of data-fetcher.js: containsMicroservices is computed, then
\* the callback of DATABASE_KEYWORDS.some reads contentLowerCase, which no
\* scope defines: a ReferenceError on the first keyword
analyzeReadmeFetcher(content) ==
  LET containsMicroservices == MicroservicePattern(toLowerCase(content))
  IN  IF Len(DATABASE_KEYWORDS) > 0
        THEN Threw
        ELSE Returned(containsMicroservices /\ FALSE)

\* analyzeReadme of utils.js (the single-file crawler)
analyzeReadmeUtils(content) ==
  LET contentLowerCase == toLowerCase(content)
      containsMicroservices == includes(contentLowerCase, StrMicroservices)
      containsDatabase == SomeKeywordIn(databaseKeywords, contentLowerCase)
  IN  Returned(containsMicroservices /\ containsDatabase)

analyzeReadme(r, content) ==
  IF r = "fetcher" THEN analyzeReadmeFetcher(content)
                   ELSE analyzeReadmeUtils(content)

\* image.toLowerCase() of a truthy image that is not a string: TypeError
ImageThrows(service) == service.hasImage /\ ~service.isString

\* the callback of services.some for one service
ImageMatches(keywords, service) ==
  LET image == IF service.hasImage THEN service.image ELSE <<>>
  IN  ~ImageThrows(service) /\ SomeKeywordIn(keywords, toLowerCase(image))

\* analyzeDockerComposeFile(content, numService): services.some visits the
\* services in order and stops at the first match; an error thrown by
\* yaml.load or by a callback is caught and logged, and false is returned
analyzeDockerComposeFile(keywords, parsedYaml, numService) ==
  IF parsedYaml.kind = "map" /\ parsedYaml.hasServices
       /\ Len(parsedYaml.services) >= numService
    THEN \E i \in 1..Len(parsedYaml.services) :
           /\ ImageMatches(keywords, parsedYaml.services[i])
           /\ \A j \in 1..(i - 1) : ~ImageThrows(parsedYaml.services[j])
    ELSE FALSE

KeywordsOf(r) == IF r = "fetcher" THEN DATABASE_KEYWORDS ELSE databaseKeywords

\* the dispatch on the query's type; file is the fetched content or NoFile
NoFile == [text |-> <<>>, yaml |-> YamlError]

Truthy(content) == Len(content) > 0

classify(r, type, fetched, file) ==
  IF type = "README" /\ fetched /\ Truthy(file.text)
    THEN analyzeReadme(r, file.text)
  ELSE IF type = "DOCKER-COMPOSE" /\ fetched /\ Truthy(file.text)
    THEN Returned(analyzeDockerComposeFile(KeywordsOf(r), file.yaml, NUM_SERVICE))
  ELSE Returned(FALSE)

(***************************************************************************)
(* Directory listing and metadata.                                         *)
(***************************************************************************)
\* root listings the directory provider serves: sequences of entry types
Listings ==
  { <<"dir", "file", "dir">>, <<"dir", "file">>, <<"file", "symlink">>,
    <<"dir", "dir", "submodule">> }

CountDirs(listing) == Cardinality({i \in 1..Len(listing) : listing[i] = "dir"})

\* hasCodeStructure that counts every entry of the listing
hasCodeStructureAnyEntry(fetched, listing) ==
  IF fetched THEN Len(listing) >= MIN_FOLDERS ELSE FALSE

\* hasCodeStructure: fetched is FALSE when getContent throws
hasCodeStructure(fetched, listing) ==
  IF fetched THEN CountDirs(listing) >= MIN_FOLDERS ELSE FALSE

\* the sentinel "N/A" in a field that otherwise holds a count
NA == 0 - 1

\* a lookup of fetchRepoMetadata: ok, and the number it yields
LookupFail == [ok |-> FALSE, n |-> 0]
Lookup(n) == [ok |-> TRUE, n |-> n]

\* a lookup that was not issued
Skipped == [ok |-> FALSE, n |-> NA]

SummaryOutcomes == {LookupFail} \cup {Lookup(s) : s \in 0..MaxStars}
ListOutcomes == {LookupFail, Lookup(META_PER_PAGE)}

\* fetchRepoMetadata: the three lookups run in one try block, so the first
\* failure skips the rest and the catch returns the all-sentinel record
fetchRepoMetadata(repoData, commitsData, contributorsData) ==
  IF repoData.ok /\ commitsData.ok /\ contributorsData.ok
    THEN [stars |-> repoData.n, commits |-> commitsData.n,
          contributors |-> contributorsData.n,
          creation_date |-> "created_at", last_update_date |-> "updated_at"]
    ELSE [stars |-> 0, commits |-> NA, contributors |-> NA,
          creation_date |-> "N/A", last_update_date |-> "N/A"]


(***************************************************************************)
(* Persistence functions.                                                  *)
(***************************************************************************)
CeilDiv(a, b) == (a + b - 1) \div b

\* the document saveQueryMetadata inserts into performed_queries
PerformedQuery(query, sizeRange, pg, resultsCount, totalPages) ==
  [query |-> query, sizeRange |-> sizeRange, page |-> pg,
   resultsCount |-> resultsCount, totalPages |-> totalPages]

\* the input validation of saveQueryMetadata in db-connector.js
saveQueryMetadataValid(query, sizeRange, pg, resultsCount, totalPages) ==
  /\ query # ""
  /\ sizeRange.isArray
  /\ pg >= 1
  /\ resultsCount >= 0
  /\ totalPages >= 0

\* saveQueryMetadata of db-connector.js: validates, inserts, rethrows
saveQueryMetadataDb(store, c, query, sizeRange, pg, resultsCount, totalPages) ==
  IF /\ saveQueryMetadataValid(query, sizeRange, pg, resultsCount, totalPages)
     /\ c = "connected"
    THEN [threw |-> FALSE,
          store |-> Append(store, PerformedQuery(query, sizeRange, pg,
                                                 resultsCount, totalPages))]
    ELSE [threw |-> TRUE, store |-> store]

\* saveQueryMetadata that puts the new record in front of the log
saveQueryMetadataPrepends(store, c, query, sizeRange, pg, resultsCount, totalPages) ==
  IF c = "connected"
    THEN [threw |-> FALSE,
          store |-> <<PerformedQuery(query, sizeRange, pg, resultsCount,
                                     totalPages)>> \o store]
    ELSE [threw |-> FALSE, store |-> store]

\* saveQueryMetadata of utils.js: inserts, logs and swallows any error (db
\* is undefined until the connection is up)
saveQueryMetadataUtils(store, c, query, sizeRange, pg, resultsCount, totalPages) ==
  IF c = "connected"
    THEN [threw |-> FALSE,
          store |-> Append(store, PerformedQuery(query, sizeRange, pg,
                                                 resultsCount, totalPages))]
    ELSE [threw |-> FALSE, store |-> store]

saveQueryMetadata(r, store, c, query, sizeRange, pg, resultsCount, totalPages) ==
  IF r = "fetcher"
    THEN saveQueryMetadataDb(store, c, query, sizeRange, pg, resultsCount, totalPages)
    ELSE saveQueryMetadataUtils(store, c, query, sizeRange, pg, resultsCount, totalPages)

\* the record mineMicroservices builds for an admitted candidate
BuildData(meta, item, type, sizeRange) ==
  [repository_metadata |-> meta, url |-> item, file_type |-> type,
   file_path |-> item, repo_size_range |-> sizeRange]

\* the input validation of saveQueryResult: data.repository must be truthy
saveQueryResultValid(data) == "repository" \in DOMAIN data

\* saveQueryResult of db-connector.js: validates, inserts, rethrows
saveQueryResult(store, c, data) ==
  IF saveQueryResultValid(data) /\ c = "connected"
    THEN [threw |-> FALSE, store |-> Append(store, data)]
    ELSE [threw |-> TRUE, store |-> store]

\* saveToMongoDB of utils.js: inserts, logs and swallows any error
saveToMongoDB(store, c, data) ==
  IF c = "connected"
    THEN [threw |-> FALSE, store |-> Append(store, data)]
    ELSE [threw |-> FALSE, store |-> store]

saveAdmitted(r, store, c, data) ==
  IF r = "fetcher" THEN saveQueryResult(store, c, data)
                   ELSE saveToMongoDB(store, c, data)

(***************************************************************************)
(* The search provider of the model: a (query, sizeRange) pair has         *)
(* pagesAvail full result pages, of which the model carries the first      *)
(* pageItems items each.                                                   *)
(***************************************************************************)
PageCounts == (0..ShallowPages) \cup {MAX_PAGES}

ItemsOfPage(avail, perPage, pg) ==
  IF pg <= avail THEN [i \in 1..perPage |-> i] ELSE <<>>

TotalCount(avail) == avail * PER_PAGE

(***************************************************************************)
(* State.                                                                  *)
(***************************************************************************)
VARIABLES
  rev,               \* the revision that runs
  nTokens,           \* GITHUB_TOKENS.length
  currentTokenIndex, \* index of the current credential
  octokit,           \* index of the credential the client instance holds
  conn,              \* the store connection: "pending" or "connected"
  pagesAvail,        \* the provider's non-empty pages for the current pair
  pageItems,         \* the items carried per non-empty page of the pair
  pc,                \* where mineMicroservices stands
  rangeIdx,          \* index into sizeRanges
  queryIdx,          \* index into queries
  page,              \* let page
  hasMoreResults,    \* let hasMoreResults
  searchResults,     \* const searchResults
  itemIdx,           \* position in searchResults
  metadata,          \* const metadata
  retries,           \* 403 answers in a row for the page being requested
  performed_queries, \* collection performed_queries (records of this pair)
  microservices,     \* collection microservices (records of this pair)
  lastReq,           \* history: the last search request of this pair
  prevReq,           \* history: the search request before it
  lastQuota,         \* history: what the guard fetched in the step just taken
  waitedForReset,    \* history: whether the last guard waited for the reset
  lastApi,           \* history: the last call made to the code-hosting API
  prevApi,           \* history: the call before it, if lastApi is metered
  dispatched,        \* history: <<page, item>> handed to the pipeline, this pair
  pairClean,         \* history: no search request of this pair has failed
  lookups,           \* history: the outcomes of the last metadata lookups
  lastContent,       \* history: how the content fetch of the step just taken ended
  harness            \* state of the function-level specifications

vars ==
  << rev, nTokens, currentTokenIndex, octokit, conn, pagesAvail, pageItems,
     pc, rangeIdx, queryIdx, page, hasMoreResults, searchResults, itemIdx,
     metadata, retries, performed_queries, microservices, lastReq, prevReq,
     lastQuota, waitedForReset, lastApi, prevApi, dispatched, pairClean,
     lookups, lastContent, harness >>

NoReq == [page |-> 0, status |-> "none", items |-> 0]
NoQuota == [kind |-> "none", remaining |-> 0]
NoLookups == <<Skipped, Skipped, Skipped>>
NoMetadata ==
  [stars |-> 0, commits |-> NA, contributors |-> NA,
   creation_date |-> "none", last_update_date |-> "none"]
Idle == [kind |-> "crawl"]

sizeRange == sizeRanges[rangeIdx]
query == queries[queryIdx].query
type == queries[queryIdx].type

Init ==
  /\ rev \in Revisions
  /\ nTokens \in 1..MaxTokens
  /\ currentTokenIndex = 0
  /\ octokit = 0
  /\ conn = IF rev = "fetcher" THEN "connected" ELSE "pending"
  /\ pagesAvail \in PageCounts
  /\ pageItems \in 1..MaxItems
  /\ pc = "mGuard"
  /\ rangeIdx = 1
  /\ queryIdx = 1
  /\ page = 1
  /\ hasMoreResults = TRUE
  /\ searchResults = <<>>
  /\ itemIdx = 0
  /\ metadata = NoMetadata
  /\ retries = 0
  /\ performed_queries = <<>>
  /\ microservices = <<>>
  /\ lastReq = NoReq
  /\ prevReq = NoReq
  /\ lastQuota = NoQuota
  /\ waitedForReset = FALSE
  /\ lastApi = "none"
  /\ prevApi = "none"
  /\ dispatched = {}
  /\ pairClean = TRUE
  /\ lookups = NoLookups
  /\ lastContent = "none"
  /\ harness = Idle


(***************************************************************************)
(* The crawl: mineMicroservices and the functions it awaits.               *)
(***************************************************************************)
\* a metered call: lastApi names it, prevApi the API call made just before it
Api(kind) == prevApi' = lastApi /\ lastApi' = kind

\* a quota fetch: the guard is the last API call; what came before it is
\* no longer kept
ApiGuard == prevApi' = "none" /\ lastApi' = "guard"

\* a step that is not the guard: currentTokenIndex and octokit are assigned
\* by switchToken alone, which only checkRateLimit calls
NextCredential ==
  /\ currentTokenIndex' = switchToken(currentTokenIndex, nTokens)
  /\ octokit' = currentTokenIndex'

SameCredential == UNCHANGED <<currentTokenIndex, octokit>>

\* checkRateLimit(): one quota fetch and the decision that follows it
Guard(from, to) ==
  /\ pc = from
  /\ pc' = to
  /\ \E quota \in QuotaOutcomes :
       LET idx == checkRateLimit(rev, currentTokenIndex, nTokens, quota, THRESHOLD)
       IN  /\ currentTokenIndex' = idx
           /\ octokit' = IF idx # currentTokenIndex THEN idx ELSE octokit
           /\ lastQuota' = [kind |-> IF quota.ok THEN "ok" ELSE "err",
                            remaining |-> quota.remaining]
           /\ waitedForReset' = checkRateLimitWaits(rev, quota, THRESHOLD)
  /\ ApiGuard
  /\ lastContent' = "none"
  /\ UNCHANGED << rev, nTokens, conn, pagesAvail, pageItems, rangeIdx, queryIdx,
                  page, hasMoreResults, searchResults, itemIdx, metadata,
                  retries, performed_queries, microservices, lastReq, prevReq,
                  dispatched, pairClean, lookups, harness >>

\* mineMicroservices: await checkRateLimit() at the head of the while loop
MainGuard == Guard("mGuard", "sGuard")

\* searchRepositories: await checkRateLimit() before the search call
SearchGuard == Guard("sGuard", "sCall")

\* searchRepositories: await checkRateLimit() in the catch of a 403
RetryGuard == Guard("rGuard", "sGuard")

\* searchRepositories: octokit.search.code answers; a 403 goes to the retry,
\* any other error returns [] to the driver, which breaks out of the loop
SearchCall ==
  /\ pc = "sCall"
  /\ \E status \in {"ok", "403", "err"} :
       /\ status = "403" => retries < MaxRetries
       /\ prevReq' = lastReq
       /\ pairClean' = (pairClean /\ status = "ok")
       /\ lastReq' = [page |-> page, status |-> status,
                      items |-> IF status = "ok"
                                  THEN Len(ItemsOfPage(pagesAvail, pageItems, page))
                                  ELSE 0]
       /\ CASE status = "ok" ->
                 /\ pc' = "sSave"
                 /\ retries' = 0
                 /\ UNCHANGED <<searchResults, hasMoreResults>>
            [] status = "403" ->
                 /\ pc' = "rGuard"
                 /\ retries' = retries + 1
                 /\ UNCHANGED <<searchResults, hasMoreResults>>
            [] status = "err" ->
                 /\ pc' = "pairDone"
                 /\ retries' = 0
                 /\ searchResults' = <<>>
                 /\ hasMoreResults' = FALSE
  /\ Api("search")
  /\ lastQuota' = NoQuota
  /\ lastContent' = "none"
  /\ SameCredential
  /\ UNCHANGED << rev, nTokens, conn, pagesAvail,
                  pageItems, rangeIdx, queryIdx, page, itemIdx, metadata,
                  performed_queries, microservices, waitedForReset, dispatched,
                  lookups, harness >>

\* searchRepositories: await saveQueryMetadata(...) and the return of
\* data.items; an error thrown by the save lands in the same catch, has no
\* status 403 and returns [].  The driver then breaks on an empty list or
\* starts on the first item.
SaveMeta ==
  /\ pc = "sSave"
  /\ LET saved == saveQueryMetadata(rev, performed_queries, conn, query,
                                    sizeRange, page, TotalCount(pagesAvail),
                                    CeilDiv(TotalCount(pagesAvail), PER_PAGE))
         items == IF saved.threw THEN <<>>
                  ELSE ItemsOfPage(pagesAvail, pageItems, page)
     IN  /\ performed_queries' = saved.store
         /\ searchResults' = items
         /\ IF Len(items) = 0
              THEN /\ hasMoreResults' = FALSE
                   /\ pc' = "pairDone"
                   /\ itemIdx' = 0
              ELSE /\ hasMoreResults' = hasMoreResults
                   /\ pc' = "content"
                   /\ itemIdx' = 1
  /\ lastQuota' = NoQuota
  /\ lastContent' = "none"
  /\ SameCredential
  /\ UNCHANGED << rev, nTokens, conn, pagesAvail,
                  pageItems, rangeIdx, queryIdx, page, metadata, retries,
                  microservices, lastReq, prevReq, waitedForReset, lastApi,
                  prevApi, dispatched, pairClean, lookups, harness >>

\* a variant of NextItem that hands the candidate on to the metadata lookups
\* instead of leaving it
NextItemEnriches == pc' = "meta" /\ UNCHANGED <<itemIdx, page>>

\* a variant of NextItem that gives up the pair instead of going on with the
\* next candidate
NextItemEndsPair == pc' = "pairDone" /\ UNCHANGED <<itemIdx, page>>

\* the end of one candidate with the page counter left where it is
NextItemSamePage ==
  IF itemIdx < Len(searchResults)
    THEN /\ itemIdx' = itemIdx + 1
         /\ pc' = "content"
         /\ page' = page
    ELSE /\ itemIdx' = 0
         /\ page' = page
         /\ pc' = IF hasMoreResults /\ page <= MAX_PAGES
                    THEN "mGuard" ELSE "pairDone"

\* the end of one candidate with the page counter advanced by two
NextItemSkipsPage ==
  IF itemIdx < Len(searchResults)
    THEN /\ itemIdx' = itemIdx + 1
         /\ pc' = "content"
         /\ page' = page
    ELSE /\ itemIdx' = 0
         /\ page' = page + 2
         /\ pc' = IF hasMoreResults /\ page + 2 <= MAX_PAGES
                    THEN "mGuard" ELSE "pairDone"

\* the end of one candidate: the next item of the page, or page++ and the
\* loop condition
NextItem ==
  IF itemIdx < Len(searchResults)
    THEN /\ itemIdx' = itemIdx + 1
         /\ pc' = "content"
         /\ page' = page
    ELSE /\ itemIdx' = 0
         /\ page' = page + 1
         /\ pc' = IF hasMoreResults /\ page + 1 <= MAX_PAGES
                    THEN "mGuard" ELSE "pairDone"

\* the files the provider still serves: once the pair has MaxAdmitted
\* records in the store of admitted repositories, only files that do not
\* classify
OfferedFiles ==
  IF Len(microservices) < MaxAdmitted
    THEN CrawlFiles
    ELSE {f \in CrawlFiles :
            LET v == classify(rev, type, TRUE, f) IN v.threw \/ ~v.value}

\* mineMicroservices: await fetchFileContent(...) and the classification
FetchContent ==
  /\ pc = "content"
  /\ \E fetched \in BOOLEAN :
       \E file \in IF fetched THEN OfferedFiles ELSE {NoFile} :
         LET verdict == classify(rev, type, fetched, file)
         IN  /\ lastContent' = IF fetched THEN "fetched" ELSE "failed"
             /\ IF verdict.threw
                  THEN pc' = "aborted" /\ UNCHANGED <<itemIdx, page>>
                ELSE IF verdict.value
                  THEN pc' = "hasCode" /\ UNCHANGED <<itemIdx, page>>
                ELSE NextItem
  /\ dispatched' = dispatched \cup {<<page, itemIdx>>}
  /\ Api("content")
  /\ lastQuota' = NoQuota
  /\ SameCredential
  /\ UNCHANGED << rev, nTokens, conn, pagesAvail,
                  pageItems, rangeIdx, queryIdx, hasMoreResults, searchResults,
                  metadata, retries, performed_queries, microservices, lastReq,
                  prevReq, waitedForReset, pairClean, lookups, harness >>

\* mineMicroservices: await hasCodeStructure(owner, repo)
HasCode ==
  /\ pc = "hasCode"
  /\ \E fetched \in BOOLEAN :
       \E listing \in IF fetched THEN Listings ELSE {<<>>} :
         IF hasCodeStructure(fetched, listing)
           THEN pc' = "meta" /\ UNCHANGED <<itemIdx, page>>
           ELSE NextItem
  /\ Api("listing")
  /\ lastQuota' = NoQuota
  /\ lastContent' = "none"
  /\ SameCredential
  /\ UNCHANGED << rev, nTokens, conn, pagesAvail,
                  pageItems, rangeIdx, queryIdx, hasMoreResults, searchResults,
                  metadata, retries, performed_queries, microservices, lastReq,
                  prevReq, waitedForReset, dispatched, pairClean, lookups,
                  harness >>


\* mineMicroservices: await fetchRepoMetadata(owner, repo); a lookup is
\* issued only if the ones before it succeeded
FetchMeta ==
  /\ pc = "meta"
  /\ \E repoData \in SummaryOutcomes :
       \E commitsData \in IF repoData.ok THEN ListOutcomes ELSE {Skipped} :
         \E contributorsData \in
              IF repoData.ok /\ commitsData.ok THEN ListOutcomes ELSE {Skipped} :
           /\ metadata' = fetchRepoMetadata(repoData, commitsData, contributorsData)
           /\ lookups' = <<repoData, commitsData, contributorsData>>
           /\ IF repoData.ok /\ commitsData.ok
                THEN prevApi' = "commits" /\ lastApi' = "contributors"
              ELSE IF repoData.ok
                THEN prevApi' = "summary" /\ lastApi' = "commits"
              ELSE Api("summary")
  /\ pc' = "save"
  /\ lastQuota' = NoQuota
  /\ lastContent' = "none"
  /\ SameCredential
  /\ UNCHANGED << rev, nTokens, conn, pagesAvail,
                  pageItems, rangeIdx, queryIdx, page, hasMoreResults,
                  searchResults, itemIdx, retries, performed_queries,
                  microservices, lastReq, prevReq, waitedForReset, dispatched,
                  pairClean, harness >>

\* mineMicroservices: await saveQueryResult(db, data) (saveToMongoDB in
\* utils.js); an error it throws is caught nowhere
SaveResult ==
  /\ pc = "save"
  /\ LET data == BuildData(metadata, searchResults[itemIdx], type, sizeRange)
         saved == saveAdmitted(rev, microservices, conn, data)
     IN  /\ microservices' = saved.store
         /\ IF saved.threw
              THEN pc' = "aborted" /\ UNCHANGED <<itemIdx, page>>
              ELSE NextItem
  /\ metadata' = NoMetadata
  /\ lookups' = NoLookups
  /\ lastQuota' = NoQuota
  /\ lastContent' = "none"
  /\ SameCredential
  /\ UNCHANGED << rev, nTokens, conn, pagesAvail,
                  pageItems, rangeIdx, queryIdx, hasMoreResults, searchResults,
                  retries, performed_queries, waitedForReset, lastApi, prevApi,
                  lastReq, prevReq, dispatched, pairClean, harness >>

\* the for loops over sizeRanges and queries: the next pair starts with
\* page = 1 and hasMoreResults = true, or the crawl ends.  The provider has
\* its own result pages for every pair.  The two collections are append-only
\* and never read by the crawler: the state keeps the records appended for
\* the pair being crawled and drops them when the next pair starts.
\* for loops that end after their first round
LastPairAlways == TRUE

LastPair == queryIdx = Len(queries) /\ rangeIdx = Len(sizeRanges)

NextPair ==
  /\ pc = "pairDone"
  /\ IF LastPair
       THEN /\ pc' = "done"
            /\ UNCHANGED << queryIdx, rangeIdx, pagesAvail, pageItems, page,
                            hasMoreResults, searchResults, itemIdx, lastReq,
                            prevReq, dispatched, pairClean,
                            performed_queries, microservices >>
       ELSE /\ pc' = "mGuard"
            /\ IF queryIdx < Len(queries)
                 THEN queryIdx' = queryIdx + 1 /\ rangeIdx' = rangeIdx
                 ELSE queryIdx' = 1 /\ rangeIdx' = rangeIdx + 1
            /\ pagesAvail' \in PageCounts
            /\ pageItems' \in 1..MaxItems
            /\ page' = 1
            /\ hasMoreResults' = TRUE
            /\ searchResults' = <<>>
            /\ itemIdx' = 0
            /\ lastReq' = NoReq
            /\ prevReq' = NoReq
            /\ dispatched' = {}
            /\ pairClean' = TRUE
            /\ performed_queries' = <<>>
            /\ microservices' = <<>>
  /\ lastQuota' = NoQuota
  /\ lastContent' = "none"
  /\ SameCredential
  /\ UNCHANGED << rev, nTokens, conn, metadata,
                  retries, waitedForReset, lastApi, prevApi, lookups, harness >>

\* utils.js calls connectToMongoDB() without awaiting it: db is assigned
\* when the connection comes up, while the crawl is already running (a
\* connection that fails leaves db undefined, as a pending one does).  The
\* model lets it come up before the first search request or not at all.
ConnectResolves ==
  /\ conn = "pending"
  /\ pc \notin {"done", "aborted"}
  /\ rangeIdx = 1 /\ queryIdx = 1 /\ lastReq = NoReq
  /\ conn' = "connected"
  /\ lastQuota' = NoQuota
  /\ lastContent' = "none"
  /\ SameCredential
  /\ UNCHANGED << rev, nTokens, pagesAvail,
                  pageItems, pc, rangeIdx, queryIdx, page, hasMoreResults,
                  searchResults, itemIdx, metadata, retries, performed_queries,
                  microservices, lastReq, prevReq, waitedForReset, lastApi,
                  prevApi, dispatched, pairClean, lookups, harness >>

Next ==
  \/ MainGuard
  \/ SearchGuard
  \/ RetryGuard
  \/ SearchCall
  \/ SaveMeta
  \/ FetchContent
  \/ HasCode
  \/ FetchMeta
  \/ SaveResult
  \/ NextPair
  \/ ConnectResolves

Spec == Init /\ [][Next]_vars

(***************************************************************************)
(* Function-level specifications.  The crawl variables rest; harness holds *)
(* the input and the result of the function applied.                       *)
(***************************************************************************)
CrawlAtRest ==
  /\ pagesAvail = 0
  /\ pageItems = 1
  /\ pc = "harness"
  /\ rangeIdx = 1
  /\ queryIdx = 1
  /\ page = 1
  /\ hasMoreResults = TRUE
  /\ searchResults = <<>>
  /\ itemIdx = 0
  /\ metadata = NoMetadata
  /\ retries = 0
  /\ performed_queries = <<>>
  /\ microservices = <<>>
  /\ lastReq = NoReq
  /\ prevReq = NoReq
  /\ lastQuota = NoQuota
  /\ waitedForReset = FALSE
  /\ lastApi = "none"
  /\ prevApi = "none"
  /\ dispatched = {}
  /\ pairClean = TRUE
  /\ lookups = NoLookups
  /\ lastContent = "none"

\* the credential pool alone: switchToken called again and again
InitPool ==
  /\ CrawlAtRest
  /\ rev \in {"fetcher"}
  /\ conn = "connected"
  /\ nTokens \in 1..MaxPoolSize
  /\ currentTokenIndex \in 0..(nTokens - 1)
  /\ octokit = currentTokenIndex
  /\ harness = [kind |-> "pool", start |-> currentTokenIndex, calls |-> 0]

SwitchTokenCall ==
  /\ harness.kind = "pool"
  /\ harness.calls < 2 * nTokens
  /\ currentTokenIndex' = switchToken(currentTokenIndex, nTokens)
  /\ octokit' = currentTokenIndex'
  /\ harness' = [harness EXCEPT !.calls = @ + 1]
  /\ UNCHANGED << rev, nTokens, conn, pagesAvail, pageItems, pc, rangeIdx,
                  queryIdx, page, hasMoreResults, searchResults, itemIdx,
                  metadata, retries, performed_queries, microservices, lastReq,
                  prevReq, lastQuota, waitedForReset, lastApi, prevApi,
                  dispatched, pairClean, lookups, lastContent >>

NextPool == SwitchTokenCall

SpecPool == InitPool /\ [][NextPool]_vars

\* the rate limit guard alone, in each revision that defines it
InitGuard ==
  /\ CrawlAtRest
  /\ rev \in Revisions \cup {CSV_REVISION}
  /\ conn = "connected"
  /\ nTokens \in 1..(IF rev = CSV_REVISION THEN 1 ELSE MaxPoolSize)
  /\ currentTokenIndex \in 0..(nTokens - 1)
  /\ octokit = currentTokenIndex
  /\ harness = [kind |-> "guard", start |-> currentTokenIndex, calls |-> 0]

CheckRateLimitCall ==
  /\ harness.kind = "guard"
  /\ harness.calls < 2
  /\ \E quota \in QuotaOutcomes :
       LET idx == checkRateLimit(rev, currentTokenIndex, nTokens, quota, THRESHOLD)
       IN  /\ currentTokenIndex' = idx
           /\ octokit' = IF idx # currentTokenIndex THEN idx ELSE octokit
           /\ lastQuota' = [kind |-> IF quota.ok THEN "ok" ELSE "err",
                            remaining |-> quota.remaining]
           /\ waitedForReset' = checkRateLimitWaits(rev, quota, THRESHOLD)
  /\ harness' = [harness EXCEPT !.calls = @ + 1]
  /\ UNCHANGED << rev, nTokens, conn, pagesAvail, pageItems, pc, rangeIdx,
                  queryIdx, page, hasMoreResults, searchResults, itemIdx,
                  metadata, retries, performed_queries, microservices, lastReq,
                  prevReq, lastApi, prevApi, dispatched, pairClean, lookups, lastContent >>

NextGuard == CheckRateLimitCall

SpecGuard == InitGuard /\ [][NextGuard]_vars

\* the metadata records fetchRepoMetadata can return
MetadataRecords ==
  { fetchRepoMetadata(r, c, k) :
      r \in SummaryOutcomes, c \in ListOutcomes, k \in ListOutcomes }

\* the records mineMicroservices can build for an admitted candidate
DriverRecords ==
  { BuildData(m, i, queries[q].type, sizeRanges[s]) :
      m \in MetadataRecords, i \in 1..MaxItems,
      q \in 1..Len(queries), s \in 1..Len(sizeRanges) }

\* the same records with the repository field the validation asks for
WithRepository(d) ==
  [repository |-> d.url, repository_metadata |-> d.repository_metadata,
   url |-> d.url, file_type |-> d.file_type, file_path |-> d.file_path,
   repo_size_range |-> d.repo_size_range]

SinkInputs == DriverRecords \cup {WithRepository(d) : d \in DriverRecords}

\* the persistence of one admitted repository alone
InitSink ==
  /\ CrawlAtRest
  /\ rev \in Revisions
  /\ conn \in {"pending", "connected"}
  /\ nTokens = 1
  /\ currentTokenIndex = 0
  /\ octokit = 0
  /\ \E d \in SinkInputs : harness = [kind |-> "sink", data |-> d, result |-> "none"]

SaveAdmittedCall ==
  /\ harness.kind = "sink"
  /\ harness.result = "none"
  /\ LET saved == saveAdmitted(rev, microservices, conn, harness.data)
     IN  /\ microservices' = saved.store
         /\ harness' = [harness EXCEPT
                          !.result = IF saved.threw THEN "threw" ELSE "returned"]
  /\ UNCHANGED << rev, nTokens, currentTokenIndex, octokit, conn, pagesAvail,
                  pageItems, pc, rangeIdx, queryIdx, page, hasMoreResults,
                  searchResults, itemIdx, metadata, retries, performed_queries,
                  lastReq, prevReq, lastQuota, waitedForReset, lastApi, prevApi,
                  dispatched, pairClean, lookups, lastContent >>

NextSink == SaveAdmittedCall

SpecSink == InitSink /\ [][NextSink]_vars

(***************************************************************************)
(* Claims.                                                                 *)
(***************************************************************************)
Min(a, b) == IF a < b THEN a ELSE b

ItemsOfPages(n) == {<<p, i>> : p \in 1..n, i \in 1..pageItems}

\* C1: when the provider has non-empty pages 1..k (k < 10) and an empty
\* page k+1 for a pair and no search request fails, the pair ends with
\* exactly k+1 PerformedQuery records written (pages 1..k+1, the zero-result
\* page included) and exactly the items of pages 1..k dispatched.
C1_EveryPageRecorded ==
  (/\ pc = "pairDone"
   /\ pairClean
   /\ conn = "connected"
   /\ pagesAvail >= 1
   /\ pagesAvail < MAX_PAGES)
    => /\ Len(performed_queries) = pagesAvail + 1
       /\ \A p \in 1..(pagesAvail + 1) : performed_queries[p].page = p
       /\ dispatched = ItemsOfPages(pagesAvail)

\* C2: after a search request for page p is answered 403 the driver stands
\* in the retry of the same page (page not advanced, pagination not ended),
\* and when the retry succeeds the items of page p are the search results
\* the driver works on.
C2_RetrySamePage ==
  /\ lastReq.status = "403"
       => /\ pc \in {"rGuard", "sGuard", "sCall"}
          /\ page = lastReq.page
          /\ hasMoreResults
  /\ (lastReq.status = "ok" /\ prevReq.status = "403" /\ pc # "sSave")
       => /\ prevReq.page = lastReq.page
          /\ searchResults = ItemsOfPage(pagesAvail, pageItems, lastReq.page)

\* C3 as stated: the page number of a pair's search requests starts at 1,
\* increases by exactly 1 from each search request to the next and never
\* exceeds 10.
C3_PagePlusOnePerRequest ==
  lastReq # NoReq
    => /\ lastReq.page = prevReq.page + 1
       /\ lastReq.page <= MAX_PAGES

\* C3 amended: the page number of a pair's search requests starts at 1,
\* stays the same when the request before it was answered 403, increases
\* by exactly 1 otherwise, and never exceeds 10.
C3_PageSequence ==
  lastReq # NoReq
    => /\ lastReq.page = IF prevReq.status = "403"
                           THEN prevReq.page ELSE prevReq.page + 1
       /\ lastReq.page >= 1
       /\ lastReq.page <= MAX_PAGES

C3_Witness ==
  /\ lastReq.page = MAX_PAGES
  /\ lastReq.status = "ok"
  /\ prevReq.status = "403"

\* C4: no failure of an external call aborts the crawl or cuts it short:
\* the crawl never stops on an error, and a pair ends only when every page
\* the provider has for it (up to the ceiling) was dispatched.
C4_NothingCutsTheCrawl ==
  /\ pc # "aborted"
  /\ pc = "pairDone"
       => dispatched = ItemsOfPages(Min(pagesAvail, MAX_PAGES))

\* C5: the record the driver builds for an admitted candidate is accepted
\* by the persistence function: with the store up, exactly that one record
\* is inserted.
C5_AdmittedRecordInserted ==
  (/\ harness.kind = "sink"
   /\ harness.result # "none"
   /\ harness.data \in DriverRecords
   /\ conn = "connected")
    => /\ harness.result = "returned"
       /\ microservices = <<harness.data>>

\* C6: every metered call (search, content, listing, summary, commits,
\* contributors) is immediately preceded by the rate limit guard.
Metered ==
  {"search", "content", "listing", "summary", "commits", "contributors"}

C6_EveryMeteredCallGuarded == lastApi \in Metered => prevApi = "guard"

\* C7: a step of checkRateLimit that fetched the quota advances the
\* credential index by one position modulo the pool size when remaining is
\* at most the threshold and leaves it unchanged above it; no step of the
\* guard waits for the quota reset.
C7_GuardRotatesAtThreshold ==
  [][ /\ lastQuota'.kind = "ok"
        => currentTokenIndex' =
             IF lastQuota'.remaining <= THRESHOLD
               THEN (currentTokenIndex + 1) % nTokens
               ELSE currentTokenIndex
      /\ lastQuota'.kind # "none" => ~waitedForReset' ]_vars

\* C8: a step of checkRateLimit whose quota fetch fails leaves the
\* credential index and the client unchanged, does not stop the crawl and,
\* inside searchRepositories, goes on to the search call, which is made
\* with the client of the current credential.
C8_QuotaFailureProceeds ==
  /\ [][ lastQuota'.kind = "err"
           => /\ currentTokenIndex' = currentTokenIndex
              /\ octokit' = octokit
              /\ pc' # "aborted"
              /\ pc = "sGuard" => pc' = "sCall" ]_vars
  /\ [](pc = "sCall" => octokit = currentTokenIndex)

C8_Witness ==
  /\ pc = "sCall"
  /\ lastQuota.kind = "err"
  /\ nTokens > 1
  /\ currentTokenIndex = 1

\* C9: switchToken called N times in a row, N the pool size, brings the
\* current credential back to the one it started from, for every pool size
\* and starting index; from index N-1 the next call goes to index 0.
C9_SwitchTokenCyclic ==
  /\ [](harness.kind = "pool" /\ harness.calls = nTokens
          => currentTokenIndex = harness.start)
  /\ [][ harness.kind = "pool" /\ currentTokenIndex = nTokens - 1
           => currentTokenIndex' = 0 ]_vars

C9_Witness ==
  /\ harness.kind = "pool"
  /\ harness.calls = nTokens
  /\ nTokens > 2
  /\ harness.start = 1
  /\ currentTokenIndex = 1

\* C10: when the summary lookup succeeds and the commit lookup fails,
\* fetchRepoMetadata returns the stars and the dates of the summary with
\* commits = "N/A".
C10_SentinelsPerLookup ==
  (pc = "save" /\ lookups[1].ok /\ lookups[2] = LookupFail)
    => /\ metadata.stars = lookups[1].n
       /\ metadata.creation_date = "created_at"
       /\ metadata.last_update_date = "updated_at"
       /\ metadata.commits = NA

(***************************************************************************)
(* The heuristics, the dispatch and the structural gate, each applied to   *)
(* one input.                                                              *)
(***************************************************************************)
restVars ==
  << rev, nTokens, currentTokenIndex, octokit, conn, pagesAvail, pageItems, pc,
     rangeIdx, queryIdx, page, hasMoreResults, searchResults, itemIdx,
     metadata, retries, performed_queries, microservices, lastReq, prevReq,
     lastQuota, waitedForReset, lastApi, prevApi, dispatched, pairClean,
     lookups, lastContent >>

TextMICRO == <<"M","I","C","R","O","S","E","R","V","I","C","E","S"," ","M","O","N","G","O","D","B">>
TextSingularMysql == <<"a"," ","m","i","c","r","o","s","e","r","v","i","c","e"," ","o","n"," ","M","y","S","Q","L">>
ImgMysqlUpper == <<"M","y","S","Q","L",":","8">>

\* README contents handed to analyzeReadme
ReadmeTexts ==
  { TextMicroMongo, TextMicroOnly, TextHyphenRedis, TextMonolith, TextMICRO,
    TextSingularMysql }

YamlNoServices == [kind |-> "map", hasServices |-> FALSE, services |-> <<>>]
ComposeTwo == YamlMap(<<Service(ImgPostgres), Service(ImgNginx)>>)
ComposeUpper ==
  YamlMap(<<Service(ImgNginx), ServiceNoImage, Service(ImgMysqlUpper)>>)
ComposeNoDatabase ==
  YamlMap(<<Service(ImgNginx), ServiceNoImage, Service(ImgNginx)>>)
ComposeNumericFirst ==
  YamlMap(<<ServiceNumericImage, Service(ImgPostgres), Service(ImgNginx)>>)
ComposeFour ==
  YamlMap(<<Service(ImgNginx), Service(ImgNginx), ServiceNoImage,
            Service(ImgPostgres)>>)

\* what yaml.load yields for the contents handed to analyzeDockerComposeFile
ComposeDocs ==
  { YamlError, YamlScalar, YamlNoServices, ComposeTwo, ComposeThree,
    ComposeUpper, ComposeNoDatabase, ComposeNumericFirst, ComposeFour }

\* bound of the directory listings handed to hasCodeStructure
MaxListing == 3

EntryTypes == {"dir", "file", "symlink", "submodule"}

ListingsUpTo(n) == UNION { [1..k -> EntryTypes] : k \in 0..n }

ClassifierInputs ==
  { [kind |-> "readme", r |-> r, text |-> x] :
      r \in Revisions, x \in ReadmeTexts }
  \cup
  { [kind |-> "compose", r |-> r, yaml |-> y, numService |-> n] :
      r \in Revisions, y \in ComposeDocs,
      n \in {NUM_SERVICE, NUM_SERVICE + 1} }
  \cup
  { [kind |-> "dispatch", r |-> r, q |-> q, fetched |-> f, file |-> x] :
      r \in Revisions, q \in 1..Len(queries), f \in BOOLEAN,
      x \in CrawlFiles }
  \cup
  { [kind |-> "qualifier", fetched |-> f, listing |-> l] :
      f \in BOOLEAN, l \in ListingsUpTo(MaxListing) }

InitClassifier ==
  /\ CrawlAtRest
  /\ rev = "fetcher"
  /\ conn = "connected"
  /\ nTokens = 1
  /\ currentTokenIndex = 0
  /\ octokit = 0
  /\ \E in \in ClassifierInputs :
       harness = [kind |-> in.kind, in |-> in, done |-> FALSE,
                  result |-> Returned(FALSE)]

AnalyzeReadmeCall ==
  /\ harness.kind = "readme"
  /\ ~harness.done
  /\ harness' = [harness EXCEPT
                   !.done = TRUE,
                   !.result = analyzeReadme(harness.in.r, harness.in.text)]
  /\ UNCHANGED restVars

AnalyzeDockerComposeFileCall ==
  /\ harness.kind = "compose"
  /\ ~harness.done
  /\ harness' = [harness EXCEPT
                   !.done = TRUE,
                   !.result = Returned(analyzeDockerComposeFile(
                                KeywordsOf(harness.in.r), harness.in.yaml,
                                harness.in.numService))]
  /\ UNCHANGED restVars

ClassifyCall ==
  /\ harness.kind = "dispatch"
  /\ ~harness.done
  /\ harness' = [harness EXCEPT
                   !.done = TRUE,
                   !.result = classify(harness.in.r, queries[harness.in.q].type,
                                       harness.in.fetched,
                                       IF harness.in.fetched
                                         THEN harness.in.file ELSE NoFile)]
  /\ UNCHANGED restVars

HasCodeStructureCall ==
  /\ harness.kind = "qualifier"
  /\ ~harness.done
  /\ harness' = [harness EXCEPT
                   !.done = TRUE,
                   !.result = Returned(hasCodeStructure(harness.in.fetched,
                                                        harness.in.listing))]
  /\ UNCHANGED restVars

NextClassifier ==
  \/ AnalyzeReadmeCall
  \/ AnalyzeDockerComposeFileCall
  \/ ClassifyCall
  \/ HasCodeStructureCall

SpecClassifier == InitClassifier /\ [][NextClassifier]_vars

\* C11: hasCodeStructure returns true exactly when the listing was fetched
\* and holds at least two entries of type "dir", whatever else it holds,
\* and returns false without an error when the fetch fails.
C11_TwoDirectoriesQualify ==
  (harness.kind = "qualifier" /\ harness.done)
    => /\ ~harness.result.threw
       /\ harness.result.value =
            /\ harness.in.fetched
            /\ \E i, j \in 1..Len(harness.in.listing) :
                 /\ i < j
                 /\ harness.in.listing[i] = "dir"
                 /\ harness.in.listing[j] = "dir"

C11_Witness ==
  /\ harness.kind = "qualifier"
  /\ harness.done
  /\ harness.in.fetched
  /\ harness.in.listing = <<"dir", "file", "dir">>
  /\ harness.result.value

\* C12: analyzeReadme returns a boolean for every content: true exactly
\* when the lower-cased content matches micro[-]?service(s)? and contains a
\* database keyword.
C12_ReadmeVerdict ==
  (harness.kind = "readme" /\ harness.done)
    => harness.result =
         Returned(/\ MicroservicePattern(toLowerCase(harness.in.text))
                  /\ SomeKeywordIn(DATABASE_KEYWORDS,
                                   toLowerCase(harness.in.text)))

\* C13: analyzeDockerComposeFile returns true exactly when the content
\* parses to a mapping with a services entry of at least min services of
\* which one has an image string containing a database keyword in any
\* letter case, and returns false without raising otherwise.
C13_ComposeVerdict ==
  (harness.kind = "compose" /\ harness.done)
    => harness.result =
         Returned(/\ harness.in.yaml.kind = "map"
                  /\ harness.in.yaml.hasServices
                  /\ Len(harness.in.yaml.services) >= harness.in.numService
                  /\ \E i \in 1..Len(harness.in.yaml.services) :
                       /\ harness.in.yaml.services[i].hasImage
                       /\ harness.in.yaml.services[i].isString
                       /\ SomeKeywordIn(
                            KeywordsOf(harness.in.r),
                            toLowerCase(harness.in.yaml.services[i].image)))

\* C14: a candidate whose content was fetched is evaluated by the heuristic
\* of its query's artifact type: analyzeReadme for the README query,
\* analyzeDockerComposeFile with minimum 3 for the docker-compose query.
C14_HeuristicOfTheQuery ==
  (/\ harness.kind = "dispatch"
   /\ harness.done
   /\ harness.in.fetched
   /\ Truthy(harness.in.file.text))
    => harness.result =
         IF queries[harness.in.q].type = "README"
           THEN analyzeReadme(harness.in.r, harness.in.file.text)
           ELSE Returned(analyzeDockerComposeFile(KeywordsOf(harness.in.r),
                                                  harness.in.file.yaml,
                                                  NUM_SERVICE))

(***************************************************************************)
(* generateSizeRanges applied to one (maxSize, step).                      *)
(***************************************************************************)
\* largest step, and how far maxSize lies above the start
MaxStep == 3
MaxReach == 6

Starts == {START_KB, START_KB_EXPORT}

InitRanges ==
  /\ CrawlAtRest
  /\ rev = "fetcher"
  /\ conn = "connected"
  /\ nTokens = 1
  /\ currentTokenIndex = 0
  /\ octokit = 0
  /\ \E s \in Starts, st \in 1..MaxStep :
       \E max \in (s - MaxStep)..(s + MaxReach) :
         harness = [kind |-> "ranges", start |-> s, maxSize |-> max,
                    step |-> st, done |-> FALSE, result |-> <<>>]

GenerateSizeRangesCall ==
  /\ harness.kind = "ranges"
  /\ ~harness.done
  /\ harness' = [harness EXCEPT
                   !.done = TRUE,
                   !.result = IF harness.start = START_KB
                                THEN generateSizeRanges(harness.maxSize,
                                                        harness.step)
                                ELSE generateSizeRangesExport(harness.maxSize,
                                                              harness.step)]
  /\ UNCHANGED restVars

NextRanges == GenerateSizeRangesCall

SpecRanges == InitRanges /\ [][NextRanges]_vars

\* C15 as stated: every size range of the crawl has its lower bound
\* strictly below its upper bound, and consecutive ranges are strictly
\* increasing and do not overlap.
C15_LowerBelowUpper ==
  lastReq # NoReq
    => /\ rangeIdx \in 1..Len(sizeRanges)
       /\ sizeRange.lo < sizeRange.hi
       /\ rangeIdx > 1 => sizeRanges[rangeIdx - 1].hi < sizeRange.lo

\* C15 amended: every size range of the crawl is an inclusive interval of
\* width step, so its lower bound is at most its upper bound (equal for the
\* configured step of 1), and consecutive ranges are strictly increasing
\* and do not overlap.
C15_RangesOrdered ==
  /\ rangeIdx \in 1..Len(sizeRanges)
  /\ sizeRange.lo <= sizeRange.hi
  /\ \A i \in 1..Len(sizeRanges) :
       /\ sizeRanges[i].lo <= sizeRanges[i].hi
       /\ sizeRanges[i].hi - sizeRanges[i].lo = step - 1
  /\ \A i \in 1..(Len(sizeRanges) - 1) :
       /\ sizeRanges[i].lo < sizeRanges[i + 1].lo
       /\ sizeRanges[i].hi < sizeRanges[i + 1].lo

C15_Witness ==
  /\ rangeIdx = Len(sizeRanges)
  /\ rangeIdx > 1
  /\ lastReq.status = "ok"
  /\ sizeRange.lo = sizeRange.hi

\* the properties of a generated sequence that do not depend on its length
RangesContiguous(result, start, max, st) ==
  /\ Len(result) > 0 => result[1].lo = start
  /\ \A i \in 1..Len(result) : result[i].hi = result[i].lo + st - 1
  /\ \A i \in 1..(Len(result) - 1) : result[i + 1].lo = result[i].hi + 1
  /\ \A k \in start..(max - 1) :
       \E i \in 1..Len(result) : result[i].lo <= k /\ k <= result[i].hi
  /\ Len(result) > 0 => result[Len(result)].hi < max + st

\* C16 as stated: for all start, max and step >= 1 the generated sequence
\* has length ceil((max - start) / step), is contiguous from start, covers
\* [start, max) and ends below max + step.
C16_LengthIsCeiling ==
  (harness.kind = "ranges" /\ harness.done)
    => /\ Len(harness.result) =
            CeilDiv(harness.maxSize - harness.start, harness.step)
       /\ RangesContiguous(harness.result, harness.start, harness.maxSize,
                           harness.step)

\* C16 amended: for all start, max and step >= 1 the generated sequence is
\* empty when max <= start and has length ceil((max - start) / step)
\* otherwise; it is contiguous from start, covers [start, max) and ends
\* below max + step.
C16_LengthIsCeilingOrZero ==
  (harness.kind = "ranges" /\ harness.done)
    => /\ Len(harness.result) =
            IF harness.maxSize > harness.start
              THEN CeilDiv(harness.maxSize - harness.start, harness.step)
              ELSE 0
       /\ RangesContiguous(harness.result, harness.start, harness.maxSize,
                           harness.step)

C16_Witness ==
  /\ harness.kind = "ranges"
  /\ harness.done
  /\ harness.step = 3
  /\ harness.maxSize = harness.start + 4
  /\ Len(harness.result) = 2
  /\ harness.result[2].hi = harness.maxSize + 1

(***************************************************************************)
(* Start of the process: the module that builds the credential pool is     *)
(* evaluated, then the first guard calls are made.                         *)
(***************************************************************************)
\* quota fetches followed after the load
MaxStartupCalls == 3

\* a load that goes on whatever the pool holds
LoadOutcomeNoExit(r, n) == "loaded"

\* what evaluating the pool's module ends in.  utils.js exits with code 1
\* on an empty pool.  constants.js builds GITHUB_TOKENS and then reads
\* githubTokens.length, a name it does not define: a ReferenceError that
\* ends the import, and with it the process, for every pool.
LoadOutcome(r, n) ==
  IF r = "fetcher" THEN "ReferenceError"
  ELSE IF n = 0 THEN "exit"
  ELSE "loaded"

InitStartup ==
  /\ CrawlAtRest
  /\ rev \in Revisions
  /\ conn = IF rev = "utils" THEN "pending" ELSE "unopened"
  /\ nTokens \in 0..MaxPoolSize
  /\ currentTokenIndex = 0
  /\ octokit = 0
  /\ harness = [kind |-> "startup", phase |-> "load", calls |-> 0]

LoadTokens ==
  /\ harness.kind = "startup"
  /\ harness.phase = "load"
  /\ harness' = [harness EXCEPT !.phase = LoadOutcome(rev, nTokens)]
  /\ UNCHANGED restVars

\* checkRateLimit() once the module is loaded
StartupGuard ==
  /\ harness.kind = "startup"
  /\ harness.phase = "loaded"
  /\ harness.calls < MaxStartupCalls
  /\ \E quota \in QuotaOutcomes :
       LET idx == checkRateLimit(rev, currentTokenIndex, nTokens, quota, THRESHOLD)
       IN  /\ currentTokenIndex' = idx
           /\ octokit' = IF idx # currentTokenIndex THEN idx ELSE octokit
           /\ lastQuota' = [kind |-> IF quota.ok THEN "ok" ELSE "err",
                            remaining |-> quota.remaining]
           /\ waitedForReset' = checkRateLimitWaits(rev, quota, THRESHOLD)
  /\ ApiGuard
  /\ harness' = [harness EXCEPT !.calls = @ + 1]
  /\ UNCHANGED << rev, nTokens, conn, pagesAvail, pageItems, pc, rangeIdx,
                  queryIdx, page, hasMoreResults, searchResults, itemIdx,
                  metadata, retries, performed_queries, microservices, lastReq,
                  prevReq, dispatched, pairClean, lookups, lastContent >>

NextStartup == LoadTokens \/ StartupGuard

SpecStartup == InitStartup /\ [][NextStartup]_vars

\* C17: with an empty credential pool the process stops at the load: no
\* quota fetch, no search request and no persistence write is ever issued;
\* the size of the pool never changes after the load.
C17_EmptyPoolStops ==
  /\ [](harness.kind = "startup" /\ nTokens = 0
          => /\ harness.phase \in {"load", "exit", "ReferenceError"}
             /\ lastApi = "none"
             /\ lastQuota = NoQuota
             /\ lastReq = NoReq
             /\ performed_queries = <<>>
             /\ microservices = <<>>)
  /\ [][nTokens' = nTokens]_vars

C17_Witness ==
  /\ harness.kind = "startup"
  /\ nTokens = 0
  /\ harness.phase = "exit"

(***************************************************************************)
(* Order of the crawl.                                                     *)
(***************************************************************************)
\* the pair of the next state is the pair of this one
SamePair == rangeIdx' = rangeIdx /\ queryIdx' = queryIdx

\* the pair of the next state comes later in the order of the two for loops
LaterPair ==
  \/ rangeIdx' > rangeIdx
  \/ rangeIdx' = rangeIdx /\ queryIdx' > queryIdx

\* C18: search requests are issued in the order of (size range, query,
\* page): the pair never goes back, within a pair the page of a request is
\* never below the page of the request before it, and a new pair starts at
\* page 1.  The log of PerformedQuery records of the pair is append-only:
\* a step leaves it alone or appends one record, which describes the last
\* search request and a later page than the record before it.
C18_RequestOrder ==
  [][ /\ SamePair \/ (LaterPair /\ page' = 1 /\ lastReq' = NoReq)
      /\ SamePair => page' >= page
      /\ (pc = "sCall" /\ pc' # "sCall")
           => /\ lastReq'.page = page
              /\ prevReq' = lastReq
              /\ lastReq.page <= page
      /\ \/ performed_queries' = performed_queries
         \/ ~SamePair /\ performed_queries' = <<>>
         \/ /\ Len(performed_queries') = Len(performed_queries) + 1
            /\ SubSeq(performed_queries', 1, Len(performed_queries))
                 = performed_queries
            /\ lastReq.status = "ok"
            /\ performed_queries'[Len(performed_queries')].page = lastReq.page
            /\ performed_queries'[Len(performed_queries')].query = query
            /\ performed_queries'[Len(performed_queries')].sizeRange = sizeRange
            /\ Len(performed_queries) > 0
                 => performed_queries[Len(performed_queries)].page
                      < lastReq.page ]_vars

C18_Witness ==
  /\ rangeIdx = 2
  /\ queryIdx = 2
  /\ Len(performed_queries) = 2
  /\ performed_queries[1].page = 1
  /\ performed_queries[2].page = 2
  /\ lastReq.page = 2

\* C19: at most one external call is in flight: while the store connection
\* is being opened no quota fetch, search or other call is issued.
C19_ConnectAwaited == conn = "pending" => lastApi = "none"

\* C20: a search request that fails with a status other than 403 makes
\* searchRepositories return an empty list, which ends the pagination of
\* the pair; the crawl then goes on with the next query or size range, at
\* page 1, and ends normally after the last pair.
C20_OtherErrorEndsThePair ==
  /\ [](lastReq.status = "err"
          => /\ pc \in {"pairDone", "done"}
             /\ searchResults = <<>>
             /\ ~hasMoreResults)
  /\ [][ /\ (pc = "sCall" /\ pc' # "sCall" /\ lastReq'.status = "err")
              => pc' = "pairDone" /\ SamePair /\ page' = page
         /\ pc = "pairDone"
              => IF queryIdx = Len(queries) /\ rangeIdx = Len(sizeRanges)
                   THEN pc' = "done"
                   ELSE /\ pc' = "mGuard"
                        /\ LaterPair
                        /\ page' = 1
                        /\ hasMoreResults' ]_vars

C20_Witness ==
  /\ lastReq.status = "err"
  /\ lastReq.page = 2
  /\ pagesAvail = MAX_PAGES
  /\ pc = "pairDone"
  /\ rangeIdx = 1


(***************************************************************************)
(* The candidate pipeline, the retry and the termination of the crawl.     *)
(***************************************************************************)
\* the step leaves the candidate <<page, itemIdx>> for the one after it
CandidateLeft ==
  \/ itemIdx' = itemIdx + 1 /\ page' = page
  \/ itemIdx = Len(searchResults) /\ page' = page + 1

\* C21: the steps of a candidate happen in the order content fetch and
\* classification, directory listing, metadata lookups, insert; each step is
\* entered only from the step before it, for the same candidate, and only
\* when that step let the candidate through: a candidate the classifier
\* rejects is left with no directory listing, and a candidate hasCodeStructure
\* rejects is left with no metadata lookup and no insert.
C21_PipelineInOrder ==
  [][ /\ (pc' = "hasCode" /\ pc # "hasCode")
           => /\ pc = "content" /\ lastContent' = "fetched"
              /\ itemIdx' = itemIdx /\ page' = page
      /\ (lastApi' = "listing" /\ lastApi # "listing") => pc = "hasCode"
      /\ (pc' = "meta" /\ pc # "meta")
           => /\ pc = "hasCode" /\ lastApi' = "listing"
              /\ itemIdx' = itemIdx /\ page' = page
      /\ (lookups' # lookups /\ lookups' # NoLookups) => pc = "meta"
      /\ (pc' = "save" /\ pc # "save")
           => pc = "meta" /\ itemIdx' = itemIdx /\ page' = page
      /\ (microservices' # microservices /\ microservices' # <<>>)
           => pc = "save"
      /\ (pc = "content" /\ pc' # "hasCode" /\ pc' # "aborted")
           => /\ CandidateLeft /\ lastApi' = "content"
              /\ UNCHANGED <<metadata, lookups, microservices>>
      /\ (pc = "hasCode" /\ pc' # "meta")
           => /\ CandidateLeft /\ lastApi' = "listing"
              /\ UNCHANGED <<metadata, lookups, microservices>>
    ]_vars

\* a candidate went through the whole pipeline and was inserted, after an
\* earlier one was rejected
C21_Witness ==
  /\ Len(microservices) = 1
  /\ lastApi \in {"summary", "commits", "contributors"}
  /\ page = 1
  /\ itemIdx = 2


(***************************************************************************)
(* From one search request to the next: the guard of the page loop, the    *)
(* guard of searchRepositories, the request, and the guard and the         *)
(* recursive call of the catch when the answer is 403.  harness.rejected   *)
(* is the set of credentials the provider answers with 403; every other    *)
(* credential of the pool is served.  No bound is put on the retries.      *)
(***************************************************************************)
RejectedSets ==
  {S \in SUBSET (0..(nTokens - 1)) : S # {} /\ S # 0..(nTokens - 1)}

InitRetry ==
  /\ CrawlAtRest
  /\ rev \in Revisions
  /\ conn = "connected"
  /\ nTokens \in 2..(MaxTokens + 1)
  /\ currentTokenIndex \in 0..(nTokens - 1)
  /\ octokit = currentTokenIndex
  /\ \E S \in RejectedSets :
       harness = [kind |-> "retry", at |-> "mGuard", rejected |-> S,
                  rotations |-> 0]

\* checkRateLimit() at one of its three call sites; harness.rotations counts
\* the positions the index has advanced since the last search request
GuardCall(from, to) ==
  /\ harness.kind = "retry"
  /\ harness.at = from
  /\ \E quota \in QuotaOutcomes :
       LET idx == checkRateLimit(rev, currentTokenIndex, nTokens, quota, THRESHOLD)
       IN  /\ currentTokenIndex' = idx
           /\ octokit' = IF idx # currentTokenIndex THEN idx ELSE octokit
           /\ lastQuota' = [kind |-> IF quota.ok THEN "ok" ELSE "err",
                            remaining |-> quota.remaining]
           /\ waitedForReset' = checkRateLimitWaits(rev, quota, THRESHOLD)
           /\ harness' = [harness EXCEPT
                            !.at = to,
                            !.rotations =
                               @ + ((idx + nTokens - currentTokenIndex) % nTokens)]
  /\ UNCHANGED << rev, nTokens, conn, pagesAvail, pageItems, pc, rangeIdx,
                  queryIdx, page, hasMoreResults, searchResults, itemIdx,
                  metadata, retries, performed_queries, microservices, lastReq,
                  prevReq, lastApi, prevApi, dispatched, pairClean, lookups,
                  lastContent >>

\* mineMicroservices: await checkRateLimit() at the head of the while loop
MainGuardCall == GuardCall("mGuard", "sGuard")

\* searchRepositories: await checkRateLimit() before the search call
SearchGuardCall == GuardCall("sGuard", "sCall")

\* searchRepositories: await checkRateLimit() in the catch of a 403
RetryGuardCall == GuardCall("rGuard", "sGuard")

\* octokit.search.code with the client in use: 403 takes the catch and the
\* recursive call, an answer ends the request
SearchRequest ==
  /\ harness.kind = "retry"
  /\ harness.at = "sCall"
  /\ harness' = [harness EXCEPT
                   !.at = IF octokit \in harness.rejected
                            THEN "rGuard" ELSE "served",
                   !.rotations = 0]
  /\ lastQuota' = NoQuota
  /\ UNCHANGED << rev, nTokens, currentTokenIndex, octokit, conn, pagesAvail,
                  pageItems, pc, rangeIdx, queryIdx, page, hasMoreResults,
                  searchResults, itemIdx, metadata, retries, performed_queries,
                  microservices, lastReq, prevReq, waitedForReset, lastApi,
                  prevApi, dispatched, pairClean, lookups, lastContent >>

NextRetry ==
  \/ MainGuardCall
  \/ SearchGuardCall
  \/ RetryGuardCall
  \/ SearchRequest

\* every awaited call returns: a step that can be taken is taken
SpecRetry == InitRetry /\ [][NextRetry]_vars /\ WF_vars(NextRetry)

\* C22: once a search request has been answered 403 for the credential in
\* use while another credential of the pool would be served, the retry
\* reaches a served credential and the page request is answered; the driver
\* does not retry forever.
C22_RetryReachesServedCredential ==
  (harness.at = "rGuard") ~> (harness.at = "served")


\* C26 as stated: between two consecutive search requests the credential
\* index advances by at most one position: no credential is rotated past
\* without a search request having been made with it.
C26_OneRotationPerRequest ==
  harness.kind = "retry" => harness.rotations <= 1

\* C26: between two consecutive search requests the credential index
\* advances by at most one position for each guard run since the last
\* request, and two guards run before a request.
C26_OneRotationPerGuard ==
  harness.kind = "retry" =>
    /\ harness.at \in {"mGuard", "rGuard", "served"} => harness.rotations = 0
    /\ harness.at = "sGuard" => harness.rotations <= 1
    /\ harness.at = "sCall" => harness.rotations <= 2

\* a request about to be made with the third credential of three, the
\* second having been rotated past since the last request
C26_Witness ==
  /\ harness.kind = "retry"
  /\ harness.at = "sCall"
  /\ harness.rotations = 2
  /\ nTokens = 3
  /\ currentTokenIndex = 2


(***************************************************************************)
(* The crawl with every awaited call returning.  SearchCall answers 403    *)
(* at most MaxRetries times in a row, so no page request is answered 403   *)
(* forever.                                                                *)
(***************************************************************************)
SpecLive == Spec /\ WF_vars(Next)

\* C23: when every external call returns and no page request is answered
\* 403 forever, the crawl terminates; by then every (sizeRange, query) pair
\* has had at least one search request, and no pair has more than MAX_PAGES
\* successful page requests: the pages requested run from 1 to at most
\* MAX_PAGES and a request that succeeded is never made again.
C23_CrawlTerminates ==
  /\ <>(pc = "done")
  /\ [](pc \in {"pairDone", "done"} => lastReq # NoReq)
  /\ [](lastReq # NoReq => lastReq.page \in 1..MAX_PAGES)
  /\ [][(lastReq # NoReq /\ lastReq' # lastReq /\ lastReq' # NoReq)
          => lastReq'.page = IF lastReq.status = "ok"
                               THEN lastReq.page + 1 ELSE lastReq.page]_vars

\* the crawl is over and the last pair was paginated up to the ceiling
C23_Witness ==
  /\ pc = "done"
  /\ lastReq.status = "ok"
  /\ lastReq.page = MAX_PAGES


\* C24: the current credential index and the credential in use are changed
\* only by the rate limit guard, after a quota fetch that was answered:
\* every other step (search, save of the query, content fetch and
\* classification, directory listing, metadata lookups, insert, advance to
\* the next page or pair) leaves both unchanged.
C24_OnlyTheGuardRotates ==
  [][ (currentTokenIndex' # currentTokenIndex \/ octokit' # octokit)
        => /\ pc \in {"mGuard", "sGuard", "rGuard"}
           /\ lastApi' = "guard"
           /\ lastQuota'.kind = "ok"
           /\ octokit' = currentTokenIndex'
    ]_vars

\* an admitted candidate about to be inserted while the second credential is
\* in use: the steps since the last guard kept it
C24_Witness ==
  /\ pc = "save"
  /\ currentTokenIndex = 1
  /\ octokit = 1
  /\ lastApi # "guard"


\* C25: when the content fetch of a candidate fails (fetchFileContent
\* returns null), the candidate is rejected in that same step: nothing is
\* thrown, no directory listing, metadata lookup or insert is made for it,
\* and the crawl goes on with the next candidate of the same page (with the
\* next page when the candidate was the last of its page).
C25_FailedFetchRejects ==
  [][ lastContent' = "failed"
        => /\ pc = "content"
           /\ pc' \in {"content", "mGuard", "pairDone"}
           /\ CandidateLeft
           /\ itemIdx < Len(searchResults) => pc' = "content" /\ page' = page
           /\ lastApi' = "content"
           /\ UNCHANGED <<metadata, lookups, microservices>>
    ]_vars

\* the first candidate of a page of two could not be fetched and the second
\* is up next
C25_Witness ==
  /\ lastContent = "failed"
  /\ pc = "content"
  /\ itemIdx = 2
  /\ Len(searchResults) = 2


\* C27: when a search request was answered with items and the insert of its
\* PerformedQuery record failed, the response is not discarded: the driver
\* works on the items of that page and the pair is not ended on it.
C27_SaveFailureKeepsThePage ==
  (/\ lastReq.status = "ok"
   /\ lastReq.items > 0
   /\ page = lastReq.page
   /\ pc # "sSave"
   /\ \A k \in 1..Len(performed_queries) :
        performed_queries[k].page # lastReq.page)
    => /\ pc \in {"content", "hasCode", "meta", "save", "aborted"}
       /\ Len(searchResults) = lastReq.items


\* C28: in every reachable state the current credential index is an integer
\* in 0..N-1 for a pool of N credentials, and the client in use was built
\* from the credential at that index: every request is made with a member
\* of the loaded pool.
C28_IndexWithinPool ==
  /\ currentTokenIndex \in 0..(nTokens - 1)
  /\ octokit = currentTokenIndex

\* the guard has just rotated from the last credential of the pool back to
\* the first
C28_Witness ==
  /\ nTokens = MaxTokens
  /\ currentTokenIndex = 0
  /\ lastQuota.kind = "ok"
  /\ lastQuota.remaining <= THRESHOLD
  /\ lastReq # NoReq

=============================================================================
